---- MODULE Spec2Model ----
(***************************************************************************)
(* A state-machine model of src/demo/app.py: the User and ChatRecord       *)
(* tables, the browser's signed-cookie session, and the request handlers   *)
(* register, login, logout, chat and get_chat_history.                     *)
(*                                                                         *)
(* Every handler is one atomic action, except register: its existence      *)
(* check (line 85) and its insert (lines 92-93) are two steps of a worker  *)
(* thread, so that two registration requests can interleave.               *)
(*                                                                         *)
(* SpecAuth starts from the empty database and runs the three              *)
(* authentication routes with two concurrent registration workers.  Spec   *)
(* starts from a database in which alice has registered (a state SpecAuth  *)
(* reaches, see AliceRegistered) and runs every route, with one            *)
(* registration worker.                                                    *)
(***************************************************************************)
EXTENDS Integers, Sequences, FiniteSets, TLC

\* ------------------------------------------------------------------ bounds

\* At most this many ChatRecord rows are inserted.
MaxRecords == 2

\* GET /history is requested with page in 1..MaxPage and size in 0..MaxSize:
\* enough to page past the last row of a user who has fewer than MaxRecords
\* rows, and to ask for as many rows as there are.
MaxPage == MaxRecords

MaxSize == MaxRecords

\* Clock ticks per second: strftime('%Y-%m-%d %H:%M:%S') drops what is below a second.
TicksPerSecond == 2

\* ------------------------------------------------------------ input domains

\* Python's None: a form field or JSON key that is absent.
None == "None"

Usernames == {"alice", "bob"}

Passwords == {"p", "q"}

\* What request.form.get returns for a field: a value of S, or the empty
\* string of a field left empty (an absent field gives None, falsy alike).
FormValues(S) == S \cup {""}

\* The random salts bcrypt.gensalt() may draw.
Salts == {"s1", "s2"}

\* Server threads that handle POST /register concurrently.
Workers == {"w1", "w2"}

\* The worker that registers, and the salt it draws, where registrations do
\* not run concurrently (Spec).
SoleWorker == "w1"

SoleSalt == "s2"

\* Characters str.strip() removes.
Whitespace == {" ", "\t", "\n"}

\* Values of the "message" key, as sequences of characters.
Messages == { <<>>, <<" ", "\n">>, <<" ", "a", " ", "b", "\n">>, <<"b">> }

\* JSON bodies of POST /chat: no "message" key, "message": null, or a string.
Payloads ==
    {[kind |-> "nokey"], [kind |-> "null"]}
        \cup {[kind |-> "str", text |-> m] : m \in Messages}

\* response.choices[0].message.content of a completion that succeeds.
Replies == { <<" ", "r", "\n">> }

\* What the call of openai.ChatCompletion.create and the read of its result do.
ApiErrors == {"network_error", "api_error", "malformed_response"}

Outcomes ==
    {[kind |-> "reply", content |-> r] : r \in Replies}
        \cup {[kind |-> e] : e \in ApiErrors}

\* ------------------------------------------------------------------- state

VARIABLES
    users,        \* the User table: a sequence of rows in insertion order
    records,      \* the ChatRecord table: a sequence of rows in insertion order
    session,      \* the browser's session cookie: a function from keys to values
    reg,          \* per worker: the POST /register request it is handling
    request,      \* the request the last step handled, with what it read
    response,     \* the response the last step sent (NoResponse: none yet)
    before,       \* history variable: tables and session before the last step
    credentials   \* history variable: username -> the password it was registered with

vars == <<users, records, session, reg, request, response, before, credentials>>

\* ---------------------------------------------------------------- helpers

Min(a, b) == IF a <= b THEN a ELSE b

Max(a, b) == IF a >= b THEN a ELSE b

RECURSIVE LStrip(_)
LStrip(s) == IF s # <<>> /\ Head(s) \in Whitespace THEN LStrip(Tail(s)) ELSE s

RECURSIVE RStrip(_)
RStrip(s) ==
    IF s # <<>> /\ s[Len(s)] \in Whitespace
    THEN RStrip(SubSeq(s, 1, Len(s) - 1))
    ELSE s

\* Faulty variant of Strip, for sensitivity of the properties: only the leading whitespace is removed (str.lstrip()).
StripLeadingOnly(s) == LStrip(s)

\* Faulty variant of Strip, for sensitivity of the properties: nothing is removed.
StripNothing(s) == s

\* str.strip()
Strip(s) == RStrip(LStrip(s))

\* bcrypt.hashpw(password, salt): a salted one-way digest that carries its salt.
HashPw(password, salt) == [salt |-> salt, digest |-> <<salt, password>>]

\* Faulty variant of CheckPw, for sensitivity of the properties: only the salt prefix of the two hashes is compared.
CheckPwSaltOnly(password, hashed) == HashPw(password, hashed.salt).salt = hashed.salt

\* bcrypt.checkpw(password, hashed): hash again with the stored salt and compare.
CheckPw(password, hashed) == HashPw(password, hashed.salt) = hashed

\* not value, for a form field
Falsy(value) == value = "" \/ value = None

\* User.query.filter_by(username=username): the matching row numbers
UsersNamed(username) == {i \in 1..Len(users) : users[i].username = username}

\* .first() of that query
FirstUser(username) ==
    users[CHOOSE i \in UsersNamed(username) : \A j \in UsersNamed(username) : i <= j]

EmptySession == [k \in {} |-> TRUE]

\* Faulty variant of LoggedIn, for sensitivity of the properties: the login check is missing.
LoggedInUnchecked(s) == TRUE

\* session.get("logged_in"), as a truth value
LoggedIn(s) == IF "logged_in" \in DOMAIN s THEN s["logged_in"] ELSE FALSE

NoBody == [kind |-> "none"]

Response(op, status, calls, body) ==
    [op |-> op, status |-> status, api_calls |-> calls, body |-> body]

\* A step that has not answered its request yet.
NoResponse == Response("none", 0, 0, NoBody)

\* The completion API was not called.
NotCalled == [kind |-> "not_called"]

\* Every step records the request it handles and the state it found.
Handles(req) ==
    /\ request' = req
    /\ before' = [users |-> users, records |-> records, session |-> session]

Idle == [kind |-> "idle"]

\* datetime.utcnow() at an insert, in clock ticks since the first insert: the
\* tick of the last row's created_at, or a later one.
LastTime == records[Len(records)].created_at

Nows == IF records = <<>> THEN {0} ELSE {LastTime, LastTime + 1}

\* Faulty variant of UserRecords, for sensitivity of the properties: the filter on user_id is missing.
UserRecordsUnfiltered(user_id) == 1..Len(records)

\* ChatRecord.query.filter_by(user_id=user_id): the matching row numbers
UserRecords(user_id) == {i \in 1..Len(records) : records[i].user_id = user_id}

\* .order_by(ChatRecord.created_at.desc()): every order of the rows S that is
\* descending in created_at. The query names no second sort key, so rows of
\* equal created_at come in any order: the first row is any newest row of S.
RECURSIVE DescOrders(_)
DescOrders(S) ==
    IF S = {}
    THEN {<<>>}
    ELSE UNION {{<<i>> \o o : o \in DescOrders(S \ {i})} :
                  i \in {j \in S : \A k \in S :
                            records[j].created_at >= records[k].created_at}}

\* Faulty variant of Offset, for sensitivity of the properties: pages counted from 0.
OffsetPageTimesSize(page, size) == page * size

\* (page - 1) * size
Offset(page, size) == (page - 1) * size

\* .offset(offset).limit(limit).all() on the ordered rows
OffsetLimit(o, offset, limit) ==
    SubSeq(o, Max(offset, 0) + 1, Min(Max(offset, 0) + limit, Len(o)))

\* r.created_at.strftime('%Y-%m-%d %H:%M:%S')
FormatTime(t) == [seconds |-> t \div TicksPerSecond]

\* One entry of the "records" list of the /history response
RecordJson(r) ==
    [id |-> r.id, question |-> r.question, answer |-> r.answer,
     created_at |-> FormatTime(r.created_at)]

\* ceil(total / size), size > 0
Ceil(total, size) == -((-total) \div size)

\* Faulty variant of CompletionCalls, for sensitivity of the properties: a failed call is tried once more.
CompletionCallsWithRetry(outcome) == IF outcome.kind = "reply" THEN 1 ELSE 2

\* How often chat() calls openai.ChatCompletion.create: once, in line 150,
\* whatever comes of it.
CompletionCalls(outcome) == 1

\* ------------------------------------------------------------------- Init

NoRequest == [op |-> "none"]

\* After db.create_all() on a new database: no rows, no cookie, no request.
Init ==
    /\ users = <<>>
    /\ records = <<>>
    /\ session = EmptySession
    /\ reg = [w \in Workers |-> Idle]
    /\ request = NoRequest
    /\ response = NoResponse
    /\ before = [users |-> <<>>, records |-> <<>>, session |-> EmptySession]
    /\ credentials = [u \in {} |-> ""]

\* The User table after alice registered with password "p".
AliceRow == [id |-> 1, username |-> "alice", password_hash |-> HashPw("p", "s1")]

\* A later start of the application: alice's row is in the database.
InitAlice ==
    /\ users = <<AliceRow>>
    /\ records = <<>>
    /\ session = EmptySession
    /\ reg = [w \in Workers |-> Idle]
    /\ request = NoRequest
    /\ response = NoResponse
    /\ before = [users |-> <<AliceRow>>, records |-> <<>>, session |-> EmptySession]
    /\ credentials = [u \in {"alice"} |-> "p"]

\* ---------------------------------------------------------------- actions

\* POST /register, lines 79-87: read the form, validate, look the username up.
RegisterCheck(w, username, password) ==
    /\ reg[w] = Idle
    /\ Handles([op |-> "register", username |-> username, password |-> password])
    /\ IF Falsy(username) \/ Falsy(password)
       THEN /\ response' = Response("register", 400, 0, [kind |-> "empty_field"])
            /\ reg' = reg
       ELSE IF UsersNamed(username) # {}
       THEN /\ response' = Response("register", 400, 0, [kind |-> "username_taken"])
            /\ reg' = reg
       ELSE /\ reg' = [reg EXCEPT ![w] =
                        [kind |-> "insert", username |-> username, password |-> password]]
            /\ response' = NoResponse
    /\ UNCHANGED <<users, records, session, credentials>>

\* POST /register, lines 90-95: hash, insert and commit. The column is unique
\* (line 39): the commit of a second row with the username raises IntegrityError,
\* which nothing catches, and the request ends with a 500. salt is what
\* bcrypt.gensalt() drew.
RegisterInsert(w, salt) ==
    /\ reg[w] # Idle
    /\ Handles([op |-> "register", username |-> reg[w].username,
                password |-> reg[w].password])
    /\ LET hashed == HashPw(reg[w].password, salt) IN
         IF UsersNamed(reg[w].username) # {}
         THEN /\ response' = Response("register", 500, 0, [kind |-> "IntegrityError"])
              /\ UNCHANGED <<users, credentials>>
         ELSE /\ users' = Append(users,
                    [id |-> Len(users) + 1, username |-> reg[w].username,
                     password_hash |-> hashed])
              /\ credentials' =
                    [u \in DOMAIN credentials \cup {reg[w].username} |->
                        IF u = reg[w].username THEN reg[w].password ELSE credentials[u]]
              /\ response' = Response("register", 302, 0, [kind |-> "redirect_login"])
    /\ reg' = [reg EXCEPT ![w] = Idle]
    /\ UNCHANGED <<records, session>>

\* POST /login, lines 107-124
Login(username, password) ==
    /\ Handles([op |-> "login", username |-> username, password |-> password])
    /\ IF Falsy(username) \/ Falsy(password)
       THEN /\ response' = Response("login", 400, 0, [kind |-> "empty_field"])
            /\ session' = session
       ELSE IF UsersNamed(username) = {}
       THEN /\ response' = Response("login", 400, 0, [kind |-> "unknown_user"])
            /\ session' = session
       ELSE LET user == FirstUser(username) IN
            IF CheckPw(password, user.password_hash)
            THEN /\ session' = [logged_in |-> TRUE, username |-> user.username,
                                user_id |-> user.id]
                 /\ response' = Response("login", 302, 0, [kind |-> "redirect_index"])
            ELSE /\ response' = Response("login", 401, 0, [kind |-> "wrong_password"])
                 /\ session' = session
    /\ UNCHANGED <<users, records, reg, credentials>>

\* Faulty variant of Logout, for sensitivity of the properties: only the logged_in flag is removed from the session.
LogoutPopsFlag ==
    /\ Handles([op |-> "logout"])
    /\ session' = [k \in DOMAIN session \ {"logged_in"} |-> session[k]]
    /\ response' = Response("logout", 302, 0, [kind |-> "redirect_index"])
    /\ UNCHANGED <<users, records, reg, credentials>>

\* GET /logout, lines 131-132
Logout ==
    /\ Handles([op |-> "logout"])
    /\ session' = EmptySession
    /\ response' = Response("logout", 302, 0, [kind |-> "redirect_index"])
    /\ UNCHANGED <<users, records, reg, credentials>>

\* What POST /chat does with the request and the state it finds, where
\* completion is what the completion API call came to (NotCalled: the handler
\* returned before line 150).
ChatHandled(payload, completion, status, calls, body) ==
    /\ Handles([op |-> "chat", payload |-> payload, completion |-> completion])
    /\ response' = Response("chat", status, calls, body)

\* POST /chat, lines 139-168
Chat(payload) ==
    /\ IF ~LoggedIn(session)
       THEN /\ ChatHandled(payload, NotCalled, 401, 0, NoBody)
            /\ records' = records
       ELSE IF payload.kind = "null"
       THEN \* None.strip() raises AttributeError before the try block
            /\ ChatHandled(payload, NotCalled, 500, 0, [kind |-> "AttributeError"])
            /\ records' = records
       ELSE LET user_message ==
                    Strip(IF payload.kind = "nokey" THEN <<>> ELSE payload.text) IN
            IF user_message = <<>>
            THEN /\ ChatHandled(payload, NotCalled, 400, 0, NoBody)
                 /\ records' = records
            ELSE \E outcome \in Outcomes :
                 IF outcome.kind # "reply"
                 THEN /\ ChatHandled(payload, outcome, 500, CompletionCalls(outcome),
                                     [kind |-> outcome.kind])
                      /\ records' = records
                 ELSE IF "user_id" \notin DOMAIN session
                 THEN /\ ChatHandled(payload, outcome, 500, CompletionCalls(outcome),
                                     [kind |-> "KeyError"])
                      /\ records' = records
                 ELSE LET reply == Strip(outcome.content) IN
                      /\ Len(records) < MaxRecords
                      /\ \E now \in Nows :
                           records' = Append(records,
                               [id |-> Len(records) + 1, user_id |-> session["user_id"],
                                question |-> user_message, answer |-> reply,
                                created_at |-> now])
                      /\ ChatHandled(payload, outcome, 200, CompletionCalls(outcome),
                                     [reply |-> reply])
    /\ UNCHANGED <<users, session, reg, credentials>>

\* GET /history, lines 176-209
History(page, size) ==
    /\ Handles([op |-> "history", page |-> page, size |-> size])
    /\ IF ~LoggedIn(session)
       THEN response' = Response("history", 401, 0, NoBody)
       ELSE IF "user_id" \notin DOMAIN session
       THEN response' = Response("history", 500, 0, [kind |-> "KeyError"])
       ELSE LET rows == UserRecords(session["user_id"])
                total == Cardinality(rows)
            IN  \E o \in DescOrders(rows) :
                  LET page_rows == OffsetLimit(o, Offset(page, size), size) IN
                  IF size = 0
                  THEN response' =
                         Response("history", 500, 0, [kind |-> "ZeroDivisionError"])
                  ELSE response' = Response("history", 200, 0,
                         [records |-> [i \in 1..Len(page_rows) |->
                                          RecordJson(records[page_rows[i]])],
                          total |-> total,
                          total_pages |-> Ceil(total, size),
                          current_page |-> page,
                          page_size |-> size])
    /\ UNCHANGED <<users, records, session, reg, credentials>>

\* The authentication routes, with every worker registering.
NextAuth ==
    \/ \E w \in Workers, username \in FormValues(Usernames),
          password \in FormValues(Passwords) : RegisterCheck(w, username, password)
    \/ \E w \in Workers, salt \in Salts : RegisterInsert(w, salt)
    \/ \E username \in FormValues(Usernames), password \in FormValues(Passwords) :
          Login(username, password)
    \/ Logout

SpecAuth == Init /\ [][NextAuth]_vars

\* Every route, with one worker registering and one salt left to draw.
Next ==
    \/ \E username \in FormValues(Usernames), password \in FormValues(Passwords) :
          RegisterCheck(SoleWorker, username, password)
    \/ RegisterInsert(SoleWorker, SoleSalt)
    \/ \E username \in FormValues(Usernames), password \in FormValues(Passwords) :
          Login(username, password)
    \/ Logout
    \/ \E payload \in Payloads : Chat(payload)
    \/ \E page \in 1..MaxPage, size \in 0..MaxSize : History(page, size)

Spec == InitAlice /\ [][Next]_vars

\* ------------------------------------------------------------ properties

\* The row of username u in the User table.
RowOf(u) == users[CHOOSE i \in 1..Len(users) : users[i].username = u]

\* The session a successful login of username u establishes.
SessionFor(u) == [logged_in |-> TRUE, username |-> u, user_id |-> RowOf(u).id]

\* The rows of User table t whose username is u.
RowsNamed(t, u) == {i \in 1..Len(t) : t[i].username = u}

\* t is s without its leading and trailing whitespace.
IsTrimOf(t, s) ==
    \E i \in 0..Len(s), j \in 0..Len(s) :
        /\ i + j <= Len(s)
        /\ t = SubSeq(s, i + 1, Len(s) - j)
        /\ \A k \in 1..i : s[k] \in Whitespace
        /\ \A k \in (Len(s) - j + 1)..Len(s) : s[k] \in Whitespace
        /\ t = <<>> \/ (t[1] \notin Whitespace /\ t[Len(t)] \notin Whitespace)

\* The message of the payload is absent, empty or whitespace only.
BlankPayload(p) ==
    \/ p.kind = "nokey"
    \/ p.kind = "str" /\ \A k \in 1..Len(p.text) : p.text[k] \in Whitespace

\* The message of the payload is a string with a character that is not whitespace.
TextPayload(p) ==
    p.kind = "str" /\ \E k \in 1..Len(p.text) : p.text[k] \notin Whitespace

\* The ChatRecord rows of the user with id uid.
OwnRows(uid) == {i \in 1..Len(records) : records[i].user_id = uid}

\* How many rows of S are newer than row i / at least as new as row i.
Newer(S, i) ==
    Cardinality({j \in S : records[j].created_at > records[i].created_at})

NotOlder(S, i) ==
    Cardinality({j \in S : records[j].created_at >= records[i].created_at})

\* The ids of a /history response's records, in order.
Ids(body) == [i \in 1..Len(body.records) |-> body.records[i].id]

\* The last step handled a request to route op in a session that was
\* authenticated / that held nothing.
Authenticated(op) == request.op = op /\ "logged_in" \in DOMAIN before.session

Unauthenticated(op) == request.op = op /\ before.session = EmptySession

\* SpecAuth reaches the state Spec starts from.
AliceRegistered ==
    /\ users = <<AliceRow>>
    /\ session = EmptySession
    /\ reg = [w \in Workers |-> Idle]

\* C1: with a session that no login has established (or that logout cleared),
\* POST /chat yields 401 whatever the payload, calls the completion API not at
\* all and leaves the ChatRecord table as it is; GET /history yields 401 and
\* returns no records.
C1_NoSessionIs401 ==
    /\ Unauthenticated("chat") =>
          /\ response.op = "chat"
          /\ response.status = 401
          /\ response.api_calls = 0
          /\ request.completion = NotCalled
          /\ records = before.records
    /\ Unauthenticated("history") =>
          /\ response.op = "history"
          /\ response.status = 401
          /\ "records" \notin DOMAIN response.body

\* C1 witness: after a logout, with chat records in the table, a /chat
\* request with a message was answered 401.
C1_Witness ==
    /\ Unauthenticated("chat")
    /\ TextPayload(request.payload)
    /\ response.status = 401
    /\ records # <<>>

\* C2: every record a /history response returns is a row of the requesting
\* session's user.
C2_HistoryOnlyOwnRecords ==
    (request.op = "history" /\ "records" \in DOMAIN response.body) =>
        /\ "user_id" \in DOMAIN before.session
        /\ \A k \in 1..Len(response.body.records) :
              \E i \in 1..Len(records) :
                  /\ records[i].id = response.body.records[k].id
                  /\ records[i].user_id = before.session["user_id"]

\* C2 witness: a history that returned a record while another user holds a
\* more recent one.
C2_Witness ==
    /\ Authenticated("history")
    /\ response.status = 200
    /\ response.body.records # <<>>
    /\ \E j \in 1..Len(records) :
          /\ records[j].user_id # session["user_id"]
          /\ \A i \in OwnRows(session["user_id"]) :
                records[j].created_at > records[i].created_at

\* The last step handled a login request for a registered username with a
\* password that is not empty.
LoginOfRegistered ==
    /\ request.op = "login"
    /\ request.username \in DOMAIN credentials
    /\ request.password \in Passwords

\* C3 as stated: a login with an incorrect password for a registered username
\* yields 401 and leaves the session unauthenticated, whatever it was before.
C3_WrongPasswordNoSession ==
    (LoginOfRegistered /\ request.password # credentials[request.username]) =>
        /\ response.status = 401
        /\ "logged_in" \notin DOMAIN session

\* C3 as amended: a login with the password the username was registered with
\* establishes the session of that username's row; a login with another
\* password yields 401 and leaves the session as it was before the request.
C3_Login ==
    LoginOfRegistered =>
        IF request.password = credentials[request.username]
        THEN /\ response.op = "login"
             /\ response.status = 302
             /\ Cardinality(RowsNamed(users, request.username)) = 1
             /\ session = SessionFor(request.username)
        ELSE /\ response.op = "login"
             /\ response.status = 401
             /\ session = before.session

\* C3 witness: a login for bob with a wrong password, answered 401, in a
\* session authenticated as alice.
C3_Witness ==
    /\ LoginOfRegistered
    /\ request.password # credentials[request.username]
    /\ response.status = 401
    /\ "logged_in" \in DOMAIN session
    /\ session["username"] # request.username

\* C4 as stated: a registration request for a username that has a row when the
\* request is answered is answered 400, username taken, and the username has
\* exactly one row afterwards, wherever the request's check and insert fall.
C4_SecondRegisterConflict ==
    (/\ request.op = "register"
     /\ response.op = "register"
     /\ RowsNamed(before.users, request.username) # {}) =>
        /\ response.status = 400
        /\ response.body.kind = "username_taken"
        /\ Cardinality(RowsNamed(users, request.username)) = 1

\* The part of C4 that holds: no username has two rows.
C4_UsernamesUnique ==
    \A u \in Usernames : Cardinality(RowsNamed(users, u)) <= 1

\* C5: a /chat request of an authenticated session with a message that is not
\* blank, answered by the completion API, appends exactly one ChatRecord: the
\* trimmed message, the trimmed reply, the session's user id; the rows before
\* it and the User table stay as they are.
C5_ChatStoresOneRecord ==
    (/\ Authenticated("chat")
     /\ TextPayload(request.payload)
     /\ request.completion.kind = "reply") =>
        /\ response.op = "chat"
        /\ response.status = 200
        /\ Len(records) = Len(before.records) + 1
        /\ SubSeq(records, 1, Len(before.records)) = before.records
        /\ users = before.users
        /\ LET r == records[Len(records)] IN
             /\ IsTrimOf(r.question, request.payload.text)
             /\ IsTrimOf(r.answer, request.completion.content)
             /\ r.user_id = before.session["user_id"]
             /\ \A i \in 1..Len(before.records) : before.records[i].id # r.id
             /\ response.body.reply = r.answer

\* C5 witness: a second record stored, of a message that had whitespace around it.
C5_Witness ==
    /\ Authenticated("chat")
    /\ response.status = 200
    /\ Len(records) = 2
    /\ request.payload.text # records[2].question
    /\ records[2].question = <<"a", " ", "b">>

\* C6: a /chat request of an authenticated session whose message is absent,
\* empty or whitespace only yields 400, calls the completion API not at all
\* and leaves the ChatRecord table as it is.
C6_BlankMessageIs400 ==
    (Authenticated("chat") /\ BlankPayload(request.payload)) =>
        /\ response.op = "chat"
        /\ response.status = 400
        /\ response.api_calls = 0
        /\ request.completion = NotCalled
        /\ records = before.records

\* C6 witness: a whitespace-only message answered 400 in an authenticated
\* session that has chatted before.
C6_Witness ==
    /\ Authenticated("chat")
    /\ request.payload = [kind |-> "str", text |-> <<" ", "\n">>]
    /\ response.status = 400
    /\ OwnRows(session["user_id"]) # {}

\* C7: for page >= 1 and size >= 1, /history of an authenticated user returns
\* the rows at positions (page-1)*size+1 .. min(page*size, total) of the user's
\* rows in descending created_at (row i may stand at position k of such an
\* order iff fewer than k rows are newer and at least k are not older), with
\* total, total_pages = ceil(total/size), current_page and page_size.
C7_HistoryPage ==
    (Authenticated("history") /\ request.page >= 1 /\ request.size >= 1) =>
        LET own == OwnRows(before.session["user_id"])
            total == Cardinality(own)
            first == (request.page - 1) * request.size + 1
            last == Min(request.page * request.size, total)
            body == response.body
        IN  /\ response.op = "history"
            /\ response.status = 200
            /\ body.total = total
            /\ body.total_pages * request.size >= total
            /\ (body.total_pages - 1) * request.size < total
            /\ body.total_pages >= 0
            /\ body.current_page = request.page
            /\ body.page_size = request.size
            /\ Len(body.records) = Max(last - first + 1, 0)
            /\ \A k \in 1..Len(body.records) :
                 \E i \in own :
                    /\ body.records[k].id = records[i].id
                    /\ body.records[k].question = records[i].question
                    /\ body.records[k].answer = records[i].answer
                    /\ Newer(own, i) < first + k - 1
                    /\ first + k - 1 <= NotOlder(own, i)
            /\ \A k, l \in 1..Len(body.records) :
                 k # l => body.records[k].id # body.records[l].id

\* C7 witness: page 2 of size 1 of a user with two records: the second record,
\* total 2, total_pages 2.
C7_Witness ==
    /\ Authenticated("history")
    /\ request.page = 2
    /\ request.size = 1
    /\ response.status = 200
    /\ response.body.total = 2
    /\ response.body.total_pages = 2
    /\ Len(response.body.records) = 1

\* The step is a /history request for the given page and size that follows,
\* with no step between, a step whose request was to route op and was
\* answered 200.
HistoryFollows(op, page, size) ==
    /\ request.op = op
    /\ response.status = 200
    /\ request'.op = "history"
    /\ request'.page = page
    /\ request'.size = size
    /\ response'.op = "history"
    /\ response'.status = 200
    /\ before' = [users |-> users, records |-> records, session |-> session]

\* C8, first half: the /history request that follows a successful /chat, with
\* page 1 and a size that covers every row not older than the new one, returns
\* the question and the answer that chat stored.
C8_RoundTrip ==
    [][ \A size \in 1..MaxSize :
          (/\ HistoryFollows("chat", 1, size)
           /\ NotOlder(OwnRows(session["user_id"]), Len(records)) <= size) =>
              \E k \in 1..Len(response'.body.records) :
                  /\ response'.body.records[k].id = records[Len(records)].id
                  /\ response'.body.records[k].question = records[Len(records)].question
                  /\ response'.body.records[k].answer = records[Len(records)].answer
                  /\ response.body.reply = response'.body.records[k].answer
      ]_vars

\* C8 as stated: a record stored by /chat is returned verbatim by the
\* /history request that follows, and paging through all pages returns every
\* record of the user exactly once (stated for a history of two pages, page 2
\* requested right after page 1).
C8_RoundTripAndPaging ==
    [][ /\ \A size \in 1..MaxSize :
             (/\ HistoryFollows("chat", 1, size)
              /\ NotOlder(OwnRows(session["user_id"]), Len(records)) <= size) =>
                 \E k \in 1..Len(response'.body.records) :
                     /\ response'.body.records[k].question = records[Len(records)].question
                     /\ response'.body.records[k].answer = records[Len(records)].answer
        /\ \A size \in 1..MaxSize :
             (/\ HistoryFollows("history", 2, size)
              /\ request.page = 1
              /\ request.size = size
              /\ response.body.total_pages = 2) =>
                 LET ids == Ids(response.body) \o Ids(response'.body) IN
                     \A i \in OwnRows(session["user_id"]) :
                         Cardinality({k \in 1..Len(ids) : ids[k] = records[i].id}) = 1
      ]_vars

\* C9: logout leaves the session without any key and the tables as they are;
\* a session without keys stays so until a login with the password the
\* username was registered with succeeds; until then /chat and /history
\* yield 401.
C9_LogoutClearsSession ==
    /\ request.op = "logout" =>
          /\ DOMAIN session = {}
          /\ users = before.users
          /\ records = before.records
    /\ (before.session = EmptySession /\ session # EmptySession) =>
          /\ request.op = "login"
          /\ request.username \in DOMAIN credentials
          /\ request.password = credentials[request.username]
          /\ response.status = 302
    /\ (before.session = EmptySession /\ request.op \in {"chat", "history"}) =>
          /\ response.status = 401
          /\ session = EmptySession

\* C9 witness: a logout of an authenticated session answered, the session
\* empty, with users and records in the tables.
C9_Witness ==
    /\ Authenticated("logout")
    /\ session = EmptySession
    /\ Len(users) = 2
    /\ records # <<>>

\* C10: when the completion API call fails, however it fails, a /chat request
\* of an authenticated session with a message that is not blank yields 500
\* after one call of the API, stores no ChatRecord and leaves the session
\* authenticated as the same user.
C10_ApiFailureIs500 ==
    (/\ Authenticated("chat")
     /\ TextPayload(request.payload)
     /\ request.completion.kind \in ApiErrors) =>
        /\ response.op = "chat"
        /\ response.status = 500
        /\ response.api_calls = 1
        /\ records = before.records
        /\ session = before.session
        /\ "logged_in" \in DOMAIN session

\* C10 witness: a malformed completion answered 500 after one call of the
\* API, the session still authenticated, a record of an earlier chat in the
\* table.
C10_Witness ==
    /\ Authenticated("chat")
    /\ request.completion.kind = "malformed_response"
    /\ response.status = 500
    /\ response.api_calls = 1
    /\ "logged_in" \in DOMAIN session
    /\ records # <<>>

====
